---------------------------- MODULE Spec2Model ----------------------------
(***************************************************************************)
(* Model of the network resilience core of nube-cli (package internal/api):*)
(* the CircuitBreaker, the RetryTransport that consults it, Client.do with *)
(* parseErrorResponse, which turns the transport's outcome into the typed  *)
(* error handed to the caller, and CollectAllPages; and of the             *)
(* authorization flow of package internal/oauth (Authorize and             *)
(* authorizeServer); and of the store profiles of the credential file      *)
(* (package internal/credstore).                                           *)
(* Each component has its own specification over the                       *)
(* one list of variables; a specification leaves the variables of the      *)
(* other components unchanged.                                             *)
(*                                                                         *)
(* The breaker's clock counts whole seconds; the transport's backoff is    *)
(* counted in milliseconds.                                                *)
(***************************************************************************)
EXTENDS Integers, Sequences, FiniteSets, TLC

(***************************************************************************)
(* Program constants.                                                      *)
(***************************************************************************)
CircuitBreakerThreshold == 5
CircuitBreakerResetTime == 30

(***************************************************************************)
(* Bounds of the model.                                                    *)
(***************************************************************************)
MaxFailures == 7
MaxTime == 65
NumThreads == 2
MaxTimeMutex == 62
MaxFailuresMutex == 5
MaxTimeTransport == 91
MaxPages == 3
MaxItems == 2
MaxCallbacks == 2

\* The clock starts late enough that the zero time.Time of a fresh breaker
\* (modelled as 0) lies more than the cooldown in the past.
StartTime == CircuitBreakerResetTime + 1
TickSteps == {1, CircuitBreakerResetTime}
Threads == 1..NumThreads
NoHolder == 0

VARIABLES
    cb,        \* the CircuitBreaker fields: failures, lastFailure, open
    now,       \* the wall clock (seconds)
    last,      \* the most recent completed breaker call: op, ret, pre-state
    streak,    \* RecordFailure calls since the breaker was last reset
    failAt,    \* clock reading at the most recent RecordFailure call
    mu,        \* holder of cb.mu, NoHolder when unlocked
    th,        \* per goroutine: position inside a breaker method and locals
    seq,       \* the breaker state after the completed calls, in lock order
    nfail,     \* RecordFailure calls completed since the last reset
    cfg,       \* the RetryTransport fields MaxRetries429, MaxRetries5xx, BaseDelay
    rt,        \* the send in progress: position, retry counters, last response
    res,       \* what Client.do returned to its caller for the last send
    cl,        \* the error response handed to Client.do: status and body
    pg,        \* CollectAllPages: the server's pages and the loop's locals
    oa,        \* Authorize: options, listener, callbacks, channels, outcome
    cs         \* credstore: the credential file and the last call made on it

vars == <<cb, now, last, streak, failAt, mu, th, seq, nfail, cfg, rt, res,
          cl, pg, oa, cs>>
brkVars == <<last, streak, failAt, mu, th, seq, nfail>>
extVars == <<cl, pg, oa, cs>>

\* The value of a variable in the specifications that have no use for it.
Unused == [pc |-> "unused"]

(***************************************************************************)
(* CircuitBreaker: the three methods as functions of the fields and of the *)
(* clock reading, each giving the new fields and the return value.         *)
(***************************************************************************)
NewCircuitBreaker == [failures |-> 0, lastFailure |-> 0, open |-> FALSE]

RecordSuccess_KeepsOpen(c) ==
    [cb |-> [c EXCEPT !.failures = 0], ret |-> FALSE]

RecordSuccess(c) ==
    [cb |-> [c EXCEPT !.failures = 0, !.open = FALSE], ret |-> FALSE]

RecordFailure_OffByOne(c, t) ==
    LET f == c.failures + 1 IN
    IF f > CircuitBreakerThreshold
      THEN [cb |-> [failures |-> f, lastFailure |-> t, open |-> TRUE],
            ret |-> TRUE]
      ELSE [cb |-> [failures |-> f, lastFailure |-> t, open |-> c.open],
            ret |-> FALSE]

RecordFailure(c, t) ==
    LET f == c.failures + 1 IN
    IF f >= CircuitBreakerThreshold
      THEN [cb |-> [failures |-> f, lastFailure |-> t, open |-> TRUE],
            ret |-> TRUE]
      ELSE [cb |-> [failures |-> f, lastFailure |-> t, open |-> c.open],
            ret |-> FALSE]

IsOpen_KeepsCount(c, t) ==
    IF ~c.open THEN [cb |-> c, ret |-> FALSE]
    ELSE IF t - c.lastFailure > CircuitBreakerResetTime
      THEN [cb |-> [c EXCEPT !.open = FALSE], ret |-> FALSE]
      ELSE [cb |-> c, ret |-> TRUE]

IsOpen_AtCooldown(c, t) ==
    IF ~c.open THEN [cb |-> c, ret |-> FALSE]
    ELSE IF t - c.lastFailure >= CircuitBreakerResetTime
      THEN [cb |-> [c EXCEPT !.open = FALSE, !.failures = 0], ret |-> FALSE]
      ELSE [cb |-> c, ret |-> TRUE]

IsOpen(c, t) ==
    IF ~c.open THEN [cb |-> c, ret |-> FALSE]
    ELSE IF t - c.lastFailure > CircuitBreakerResetTime
      THEN [cb |-> [c EXCEPT !.open = FALSE, !.failures = 0], ret |-> FALSE]
      ELSE [cb |-> c, ret |-> TRUE]

(***************************************************************************)
(* RetryTransport and Client: constants and the shapes of the values.      *)
(***************************************************************************)
DefaultMaxRetries429 == 5
DefaultMaxRetries5xx == 2
TestMaxRetries429 == 2
TestMaxRetries5xx == 1
\* Durations are counted in milliseconds.
Millisecond == 1
Second == 1000

DefaultTransport ==
    [MaxRetries429 |-> DefaultMaxRetries429,
     MaxRetries5xx |-> DefaultMaxRetries5xx,
     BaseDelay |-> Second]

TestTransport ==
    [MaxRetries429 |-> TestMaxRetries429,
     MaxRetries5xx |-> TestMaxRetries5xx,
     BaseDelay |-> Millisecond]

Transports == {DefaultTransport, TestTransport}

\* A header is <<>> when absent and <<n>> when it carries the number n.
Absent == <<>>
ResetHeaders == {Absent, <<3000>>}
RetryAfterHeaders == {Absent, <<5>>, <<10>>}

\* A JSON value is a string, a number or a list of strings; a body is
\* either not a JSON object at all (empty, plain text) or an object giving
\* a value to some of the keys.
Keys == {"code", "message", "description", "error", "name"}
Missing == [t |-> "missing", s |-> "", l |-> <<>>]
Str(x) == [t |-> "str", s |-> x, l |-> <<>>]
Num == [t |-> "num", s |-> "", l |-> <<>>]
List(x) == [t |-> "list", s |-> "", l |-> x]
Object(o) ==
    [json |-> TRUE,
     obj |-> [k \in Keys |-> IF k \in DOMAIN o THEN o[k] ELSE Missing]]
NotJSON == [json |-> FALSE, obj |-> [k \in Keys |-> Missing]]
NoFields == [k \in Keys |-> Missing]
Has(body, k) == body.obj[k].t # "missing"

BusinessBody ==
    Object([code |-> Str("E1"), message |-> Str("m"), description |-> Str("d")])
DescriptionBody == Object([description |-> Str("d")])
ParseErrorBody == Object([error |-> Str("bad json")])
ValidationBody == Object([name |-> List(<<"required">>)])
NumericCodeBody == Object([code |-> Num, message |-> Str("x")])
EmptyObjectBody == [json |-> TRUE, obj |-> [k \in Keys |-> Missing]]

WireBodies == {NotJSON, BusinessBody}
Statuses == {200, 299, 404, 422, 429, 500, 503}

NoError ==
    [type |-> "none", StatusCode |-> 0, Code |-> "", Message |-> "",
     Fields |-> NoFields, Failures |-> 0, Retries |-> 0]
NoResponse == [kind |-> "none", status |-> 0, reset |-> Absent,
               retryAfter |-> Absent, body |-> NotJSON]
NoResult == [kind |-> "none", resp |-> NoResponse, err |-> NoError]
IdleSend ==
    [pc |-> "idle", retries429 |-> 0, retries5xx |-> 0, calls |-> 0,
     first |-> 0, resp |-> NoResponse, wait |-> 0, attempt |-> 0,
     cancelled |-> FALSE, sawOpen |-> FALSE, seen |-> {}]

NoCall == [op |-> "none", ret |-> FALSE, pre |-> NewCircuitBreaker, at |-> 0]
IdleThread == [pc |-> "idle", op |-> "none", tmp |-> 0, t |-> 0, ret |-> FALSE]

(***************************************************************************)
(* Breaker specification: one caller at a time, each method one atomic     *)
(* step (the methods hold cb.mu from entry to return).                     *)
(***************************************************************************)
InitBreaker ==
    /\ cb = NewCircuitBreaker
    /\ now = StartTime
    /\ last = NoCall
    /\ streak = 0
    /\ failAt = 0
    /\ mu = NoHolder
    /\ th = [i \in Threads |-> IdleThread]
    /\ seq = NewCircuitBreaker
    /\ nfail = 0
    /\ cfg = DefaultTransport
    /\ rt = IdleSend
    /\ res = NoResult
    /\ cl = Unused
    /\ pg = Unused
    /\ oa = Unused
    /\ cs = Unused

CallRecordSuccess ==
    LET r == RecordSuccess(cb) IN
    /\ cb' = r.cb
    /\ last' = [op |-> "RecordSuccess", ret |-> r.ret, pre |-> cb, at |-> now]
    /\ streak' = 0
    /\ UNCHANGED <<now, failAt, mu, th, seq, nfail, cfg, rt, res, extVars>>

CallRecordFailure ==
    LET r == RecordFailure(cb, now) IN
    /\ cb.failures < MaxFailures
    /\ cb' = r.cb
    /\ last' = [op |-> "RecordFailure", ret |-> r.ret, pre |-> cb, at |-> now]
    /\ streak' = streak + 1
    /\ failAt' = now
    /\ UNCHANGED <<now, mu, th, seq, nfail, cfg, rt, res, extVars>>

CallIsOpen ==
    LET r == IsOpen(cb, now) IN
    /\ cb' = r.cb
    /\ last' = [op |-> "IsOpen", ret |-> r.ret, pre |-> cb, at |-> now]
    /\ streak' = IF cb.open /\ ~r.ret THEN 0 ELSE streak
    /\ UNCHANGED <<now, failAt, mu, th, seq, nfail, cfg, rt, res, extVars>>

Tick ==
    /\ \E d \in TickSteps :
          /\ now + d <= MaxTime
          /\ now' = now + d
    /\ UNCHANGED <<cb, last, streak, failAt, mu, th, seq, nfail, cfg, rt, res, extVars>>

NextBreaker ==
    \/ CallRecordSuccess
    \/ CallRecordFailure
    \/ CallIsOpen
    \/ Tick

SpecBreaker == InitBreaker /\ [][NextBreaker]_vars

(***************************************************************************)
(* Mutex specification: several goroutines call the three methods of one   *)
(* shared breaker.  Each statement of a method body is one step; cb.mu is  *)
(* taken by the first statement and released by the deferred Unlock.       *)
(***************************************************************************)
TryLock_NoExclusion(m) == TRUE

\* sync.Mutex.Lock proceeds only while nobody holds the mutex.
TryLock(m) == m = NoHolder

Apply(op, c, t) ==
    CASE op = "RecordSuccess" -> RecordSuccess(c)
      [] op = "RecordFailure" -> RecordFailure(c, t)
      [] op = "IsOpen" -> IsOpen(c, t)

InFlightFailures == Cardinality({i \in Threads : th[i].op = "RecordFailure"})

\* The clock moves past the cooldown in one step here: the interleaving of
\* the statements, not the clock's resolution, is what this specification
\* explores.
TickMutex ==
    /\ now + CircuitBreakerResetTime + 1 <= MaxTimeMutex
    /\ now' = now + CircuitBreakerResetTime + 1
    /\ UNCHANGED <<cb, last, streak, failAt, mu, th, seq, nfail, cfg, rt, res, extVars>>

\* A goroutine enters one of the methods.
Begin(i) ==
    /\ th[i].pc = "idle"
    /\ \E op \in {"RecordSuccess", "RecordFailure", "IsOpen"} :
          /\ op = "RecordFailure" =>
                cb.failures + InFlightFailures < MaxFailuresMutex
          /\ th' = [th EXCEPT ![i] = [IdleThread EXCEPT !.pc = "lock", !.op = op]]
    /\ UNCHANGED <<cb, now, last, streak, failAt, mu, seq, nfail, cfg, rt, res, extVars>>

\* cb.mu.Lock()
Lock(i) ==
    /\ th[i].pc = "lock"
    /\ TryLock(mu)
    /\ mu' = i
    /\ th' = [th EXCEPT ![i].pc =
                 CASE th[i].op = "RecordSuccess" -> "clearFailures"
                   [] th[i].op = "RecordFailure" -> "readFailures"
                   [] th[i].op = "IsOpen" -> "checkOpen"]
    /\ UNCHANGED <<cb, now, last, streak, failAt, seq, nfail, cfg, rt, res, extVars>>

\* RecordSuccess: cb.failures = 0
SuccessClearFailures(i) ==
    /\ th[i].pc = "clearFailures"
    /\ cb' = [cb EXCEPT !.failures = 0]
    /\ th' = [th EXCEPT ![i].pc = "clearOpen"]
    /\ UNCHANGED <<now, last, streak, failAt, mu, seq, nfail, cfg, rt, res, extVars>>

\* RecordSuccess: cb.open = false
SuccessClearOpen(i) ==
    /\ th[i].pc = "clearOpen"
    /\ cb' = [cb EXCEPT !.open = FALSE]
    /\ th' = [th EXCEPT ![i].pc = "unlock"]
    /\ UNCHANGED <<now, last, streak, failAt, mu, seq, nfail, cfg, rt, res, extVars>>

\* RecordFailure: cb.failures++ (the load)
FailureRead(i) ==
    /\ th[i].pc = "readFailures"
    /\ th' = [th EXCEPT ![i].tmp = cb.failures, ![i].pc = "writeFailures"]
    /\ UNCHANGED <<cb, now, last, streak, failAt, mu, seq, nfail, cfg, rt, res, extVars>>

\* RecordFailure: cb.failures++ (the store)
FailureWrite(i) ==
    /\ th[i].pc = "writeFailures"
    /\ cb' = [cb EXCEPT !.failures = th[i].tmp + 1]
    /\ th' = [th EXCEPT ![i].pc = "stamp"]
    /\ UNCHANGED <<now, last, streak, failAt, mu, seq, nfail, cfg, rt, res, extVars>>

\* RecordFailure: cb.lastFailure = time.Now()
FailureStamp(i) ==
    /\ th[i].pc = "stamp"
    /\ cb' = [cb EXCEPT !.lastFailure = now]
    /\ th' = [th EXCEPT ![i].t = now, ![i].pc = "threshold"]
    /\ UNCHANGED <<now, last, streak, failAt, mu, seq, nfail, cfg, rt, res, extVars>>

\* RecordFailure: if cb.failures >= CircuitBreakerThreshold { open; return true }
FailureThreshold(i) ==
    /\ th[i].pc = "threshold"
    /\ IF cb.failures >= CircuitBreakerThreshold
         THEN /\ cb' = [cb EXCEPT !.open = TRUE]
              /\ th' = [th EXCEPT ![i].ret = TRUE, ![i].pc = "unlock"]
         ELSE /\ cb' = cb
              /\ th' = [th EXCEPT ![i].ret = FALSE, ![i].pc = "unlock"]
    /\ UNCHANGED <<now, last, streak, failAt, mu, seq, nfail, cfg, rt, res, extVars>>

\* IsOpen: the two tests, on cb.open and on time.Since(cb.lastFailure)
OpenCheck(i) ==
    /\ th[i].pc = "checkOpen"
    /\ th' = [th EXCEPT
                ![i].t = now,
                ![i].ret = cb.open /\ ~(now - cb.lastFailure > CircuitBreakerResetTime),
                ![i].pc = IF cb.open /\ now - cb.lastFailure > CircuitBreakerResetTime
                            THEN "resetOpen" ELSE "unlock"]
    /\ UNCHANGED <<cb, now, last, streak, failAt, mu, seq, nfail, cfg, rt, res, extVars>>

\* IsOpen: cb.open = false
OpenResetOpen(i) ==
    /\ th[i].pc = "resetOpen"
    /\ cb' = [cb EXCEPT !.open = FALSE]
    /\ th' = [th EXCEPT ![i].pc = "resetFailures"]
    /\ UNCHANGED <<now, last, streak, failAt, mu, seq, nfail, cfg, rt, res, extVars>>

\* IsOpen: cb.failures = 0
OpenResetFailures(i) ==
    /\ th[i].pc = "resetFailures"
    /\ cb' = [cb EXCEPT !.failures = 0]
    /\ th' = [th EXCEPT ![i].pc = "unlock"]
    /\ UNCHANGED <<now, last, streak, failAt, mu, seq, nfail, cfg, rt, res, extVars>>

\* The deferred cb.mu.Unlock() and the return.  seq and nfail follow the
\* completed calls one at a time, in the order of their returns.
Unlock(i) ==
    LET r == Apply(th[i].op, seq, th[i].t) IN
    /\ th[i].pc = "unlock"
    /\ mu' = NoHolder
    /\ seq' = r.cb
    /\ nfail' = CASE th[i].op = "RecordSuccess" -> 0
                  [] th[i].op = "RecordFailure" -> nfail + 1
                  [] th[i].op = "IsOpen" -> IF seq.open /\ ~r.ret THEN 0 ELSE nfail
    /\ th' = [th EXCEPT ![i].pc = "idle", ![i].op = "none", ![i].tmp = 0]
    /\ UNCHANGED <<cb, now, last, streak, failAt, cfg, rt, res, extVars>>

Step(i) ==
    \/ Begin(i)
    \/ Lock(i)
    \/ SuccessClearFailures(i)
    \/ SuccessClearOpen(i)
    \/ FailureRead(i)
    \/ FailureWrite(i)
    \/ FailureStamp(i)
    \/ FailureThreshold(i)
    \/ OpenCheck(i)
    \/ OpenResetOpen(i)
    \/ OpenResetFailures(i)
    \/ Unlock(i)

NextMutex ==
    \/ \E i \in Threads : Step(i)
    \/ TickMutex

SpecMutex == InitBreaker /\ [][NextMutex]_vars


(***************************************************************************)
(* parseErrorResponse and its helpers: status and body to a typed error.   *)
(***************************************************************************)
Err(type, status, code, message, fields, failures) ==
    [type |-> type, StatusCode |-> status, Code |-> code,
     Message |-> message, Fields |-> fields, Failures |-> failures,
     Retries |-> 0]

\* json.Unmarshal into a struct of string fields succeeds when the body is
\* a JSON object whose listed keys, where present, hold strings.
UnmarshalsAsStruct(body, fields) ==
    body.json /\ \A k \in fields : body.obj[k].t \in {"missing", "str"}

Field(body, k) == IF body.obj[k].t = "str" THEN body.obj[k].s ELSE ""

parseErrorMessage_RawBody(body) ==
    IF ~body.json THEN "raw"
    ELSE IF Field(body, "message") # "" THEN Field(body, "message")
    ELSE Field(body, "description")

parseErrorMessage(body) ==
    LET structured == UnmarshalsAsStruct(body, {"code", "message", "description"})
        simpleErr == UnmarshalsAsStruct(body, {"error"})
    IN  IF structured /\ Field(body, "message") # ""
          THEN Field(body, "message")
        ELSE IF structured /\ Field(body, "description") # ""
          THEN Field(body, "description")
        ELSE IF simpleErr /\ Field(body, "error") # ""
          THEN Field(body, "error")
        ELSE ""

parseErrorCode(body) ==
    IF UnmarshalsAsStruct(body, {"code"}) THEN Field(body, "code") ELSE ""

parseValidationFields_NoReservedKeys(body) ==
    IF ~(body.json /\ \A k \in Keys : body.obj[k].t \in {"missing", "list"})
      THEN NoFields
    ELSE body.obj

\* NoFields stands for the nil map.
parseValidationFields(body) ==
    IF ~(body.json /\ \A k \in Keys : body.obj[k].t \in {"missing", "list"})
      THEN NoFields
    ELSE IF \A k \in Keys : ~Has(body, k) THEN NoFields
    ELSE IF Has(body, "code") THEN NoFields
    ELSE IF Has(body, "message") THEN NoFields
    ELSE body.obj

parseErrorResponse_FixedStatus(status, body) ==
    Err("APIError", 500, parseErrorCode(body), parseErrorMessage(body),
        NoFields, 0)

parseErrorResponse_FieldsFirst(status, body) ==
    LET message == parseErrorMessage(body) IN
    IF parseValidationFields(body) # NoFields
      THEN Err("ValidationError", status, "", "", parseValidationFields(body), 0)
    ELSE CASE status = 401 -> Err("AuthError", 0, "", message, NoFields, 0)
           [] status = 402 -> Err("PaymentRequiredError", 0, "", message, NoFields, 0)
           [] status = 403 -> Err("PermissionDeniedError", 0, "", message, NoFields, 0)
           [] status = 404 -> Err("NotFoundError", 0, "", "", NoFields, 0)
           [] OTHER -> Err("APIError", status, parseErrorCode(body), message,
                           NoFields, 0)

parseErrorResponse(status, body) ==
    LET message == parseErrorMessage(body) IN
    CASE status = 401 -> Err("AuthError", 0, "", message, NoFields, 0)
      [] status = 402 -> Err("PaymentRequiredError", 0, "", message, NoFields, 0)
      [] status = 403 -> Err("PermissionDeniedError", 0, "", message, NoFields, 0)
      [] status = 404 -> Err("NotFoundError", 0, "", "", NoFields, 0)
      [] OTHER ->
           IF status = 422 /\ parseValidationFields(body) # NoFields
             THEN Err("ValidationError", status, "", "",
                      parseValidationFields(body), 0)
             ELSE Err("APIError", status, parseErrorCode(body), message,
                      NoFields, 0)

(***************************************************************************)
(* Client.do: what the caller of the client gets for what the transport    *)
(* returned.                                                               *)
(***************************************************************************)
RespRet(resp) == [kind |-> "response", resp |-> resp, err |-> NoError]
ErrRet(err) == [kind |-> "error", resp |-> NoResponse, err |-> err]

ClientDo_OnlyOK(ret) ==
    IF ret.kind = "error" THEN ret
    ELSE IF ret.resp.status = 200 THEN ret
    ELSE ErrRet(parseErrorResponse(ret.resp.status, ret.resp.body))

ClientDo(ret) ==
    IF ret.kind = "error" THEN ret
    ELSE IF ret.resp.status >= 200 /\ ret.resp.status < 300 THEN ret
    ELSE ErrRet(parseErrorResponse(ret.resp.status, ret.resp.body))

(***************************************************************************)
(* RetryTransport.RoundTrip.  429 and 5xx responses are retried under      *)
(* separate limits (MaxRetries429, MaxRetries5xx); a transport failure is  *)
(* retried under the server-error limit.  The breaker records a success on *)
(* a 2xx response, and a failure on every transport failure and when the   *)
(* retries of a 429 or 5xx are used up; other statuses leave it alone.     *)
(***************************************************************************)
Pow2(n) == IF n <= 0 THEN 1 ELSE 2 ^ n

\* The draws of the random jitter: none, half of the range, all of it.
JitterDraws(delay) == {0, delay \div 4, delay \div 2}

calculateBackoff_ResetInSeconds(attempt, resp, baseDelay, jitter) ==
    IF resp.reset # Absent THEN resp.reset[1] * Second
    ELSE IF resp.retryAfter # Absent THEN resp.retryAfter[1] * Second
    ELSE baseDelay * Pow2(attempt) + jitter

calculateBackoff(attempt, resp, baseDelay, jitter) ==
    IF resp.reset # Absent THEN resp.reset[1] * Millisecond
    ELSE IF resp.retryAfter # Absent THEN resp.retryAfter[1] * Second
    ELSE baseDelay * Pow2(attempt) + jitter

\* Step 1 of RoundTrip: whether the send is refused before any network call.
Refuses_Never(isOpen) == FALSE

Refuses(isOpen) == isOpen

\* RoundTrip hands a response it will not retry, also the last 429 or 5xx
\* once the retries are used up, back as it is and with a nil error; the
\* classification into a typed error is done by Client.do.
ReturnsResponse(resp) == RespRet(resp)

\* What RoundTrip does with a response, given the retries already made.
Decide_RetryOnce(status, retries429, retries5xx, c) ==
    IF status >= 200 /\ status < 300 THEN "success"
    ELSE IF status = 429
      THEN IF retries429 >= c.MaxRetries429 + 1 THEN "exhausted" ELSE "retry429"
    ELSE IF status >= 500
      THEN IF retries5xx >= c.MaxRetries5xx + 1 THEN "exhausted" ELSE "retry5xx"
    ELSE "return"

Decide_ClientErrorRetried(status, retries429, retries5xx, c) ==
    IF status >= 200 /\ status < 300 THEN "success"
    ELSE IF status = 429
      THEN IF retries429 >= c.MaxRetries429 THEN "exhausted" ELSE "retry429"
    ELSE IF status >= 400
      THEN IF retries5xx >= c.MaxRetries5xx THEN "exhausted" ELSE "retry5xx"
    ELSE "return"

Decide_NoLimit429(status, retries429, retries5xx, c) ==
    IF status >= 200 /\ status < 300 THEN "success"
    ELSE IF status = 429 THEN "retry429"
    ELSE IF status >= 500
      THEN IF retries5xx >= c.MaxRetries5xx THEN "exhausted" ELSE "retry5xx"
    ELSE "return"

Decide(status, retries429, retries5xx, c) ==
    IF status >= 200 /\ status < 300 THEN "success"
    ELSE IF status = 429
      THEN IF retries429 >= c.MaxRetries429 THEN "exhausted" ELSE "retry429"
    ELSE IF status >= 500
      THEN IF retries5xx >= c.MaxRetries5xx THEN "exhausted" ELSE "retry5xx"
    ELSE "return"

\* The class of an attempt's outcome, for the record of what a send saw.
StatusClass(status) ==
    IF status >= 200 /\ status < 300 THEN "2xx"
    ELSE IF status = 429 THEN "429"
    ELSE IF status >= 500 THEN "5xx"
    ELSE "other"

Response(s, r, a, b) ==
    [kind |-> "resp", status |-> s, reset |-> r, retryAfter |-> a, body |-> b]

Responses ==
    {Response(s, Absent, Absent, NotJSON) : s \in {x \in Statuses : x < 300}}
    \cup {Response(429, r, a, b) :
             r \in ResetHeaders, a \in RetryAfterHeaders, b \in WireBodies}
    \cup {Response(s, Absent, a, b) :
             s \in {x \in Statuses : x >= 500},
             a \in {Absent, <<5>>}, b \in WireBodies}
    \cup {Response(s, Absent, Absent, b) :
             s \in {x \in Statuses : x >= 300 /\ x < 500 /\ x # 429},
             b \in WireBodies}

InitTransport ==
    /\ cb = NewCircuitBreaker
    /\ now = StartTime
    /\ last = NoCall
    /\ streak = 0
    /\ failAt = 0
    /\ mu = NoHolder
    /\ th = [i \in Threads |-> IdleThread]
    /\ seq = NewCircuitBreaker
    /\ nfail = 0
    /\ cfg \in Transports
    /\ rt = IdleSend
    /\ res = NoResult
    /\ cl = Unused
    /\ pg = Unused
    /\ oa = Unused
    /\ cs = Unused

\* Client.do calls RoundTrip: the breaker is consulted, and the first
\* network call goes out unless the breaker is open or the caller's context
\* is already cancelled.
SendBegin ==
    /\ rt.pc \in {"idle", "done"}
    /\ \E cancelled \in BOOLEAN :
         LET r == IsOpen(cb, now) IN
         /\ cb' = r.cb
         /\ IF Refuses(r.ret)
              THEN /\ rt' = [IdleSend EXCEPT !.pc = "done", !.sawOpen = r.ret,
                                             !.cancelled = cancelled]
                   /\ res' = ClientDo(ErrRet(Err("CircuitBreakerError", 0, "", "",
                                                 NoFields, cb.failures)))
              ELSE /\ rt' = [IdleSend EXCEPT !.pc = "attempt",
                                             !.sawOpen = r.ret,
                                             !.cancelled = cancelled,
                                             !.calls = IF cancelled THEN 0 ELSE 1]
                   /\ res' = NoResult
    /\ UNCHANGED <<now, cfg>>
    /\ UNCHANGED <<brkVars, extVars>>

Records_EveryServerError(d, c, t) ==
    IF d = "success" THEN RecordSuccess(c).cb
    ELSE IF d \in {"exhausted", "retry5xx"} THEN RecordFailure(c, t).cb
    ELSE c

\* What a response does to the breaker: a 2xx records a success, a 429 or
\* 5xx that finds the retries used up records one failure, and a response
\* that is retried or handed back as it is records nothing.
Records(d, c, t) ==
    IF d = "success" THEN RecordSuccess(c).cb
    ELSE IF d = "exhausted" THEN RecordFailure(c, t).cb
    ELSE c

\* The server's answer to the call in flight arrives.
AttemptResponse ==
    /\ rt.pc = "attempt"
    /\ ~rt.cancelled
    /\ \E resp \in Responses :
         LET d == Decide(resp.status, rt.retries429, rt.retries5xx, cfg)
             seen == [rt EXCEPT !.resp = resp,
                                !.seen = rt.seen \cup {StatusClass(resp.status)},
                                !.first = IF rt.first = 0 THEN resp.status
                                          ELSE rt.first]
         IN
         CASE d = "success" ->
                /\ cb' = Records(d, cb, now)
                /\ rt' = [seen EXCEPT !.pc = "done"]
                /\ res' = ClientDo(ReturnsResponse(resp))
           [] d = "return" ->
                /\ cb' = Records(d, cb, now)
                /\ rt' = [seen EXCEPT !.pc = "done"]
                /\ res' = ClientDo(ReturnsResponse(resp))
           [] d = "exhausted" ->
                /\ cb' = Records(d, cb, now)
                /\ rt' = [seen EXCEPT !.pc = "done"]
                /\ res' = ClientDo(ReturnsResponse(resp))
           [] d = "retry429" ->
                /\ \E j \in JitterDraws(cfg.BaseDelay * Pow2(rt.retries429)) :
                      rt' = [seen EXCEPT
                               !.pc = "wait",
                               !.attempt = rt.retries429,
                               !.wait = calculateBackoff(rt.retries429, resp,
                                                          cfg.BaseDelay, j),
                               !.retries429 = rt.retries429 + 1]
                /\ cb' = Records(d, cb, now)
                /\ res' = res
           [] d = "retry5xx" ->
                /\ \E j \in JitterDraws(cfg.BaseDelay * Pow2(rt.retries5xx)) :
                      rt' = [seen EXCEPT
                               !.pc = "wait",
                               !.attempt = rt.retries5xx,
                               !.wait = calculateBackoff(rt.retries5xx, resp,
                                                          cfg.BaseDelay, j),
                               !.retries5xx = rt.retries5xx + 1]
                /\ cb' = Records(d, cb, now)
                /\ res' = res
    /\ UNCHANGED <<now, cfg>>
    /\ UNCHANGED <<brkVars, extVars>>

\* The call in flight fails without a response (connection failure, or the
\* context was cancelled): a breaker failure is recorded, and the call is
\* retried within the server-error retry limit.
AttemptFails ==
    /\ rt.pc = "attempt"
    /\ cb' = RecordFailure(cb, now).cb
    /\ LET failed == [rt EXCEPT !.resp = NoResponse,
                                !.seen = rt.seen \cup {"failure"},
                                !.first = IF rt.first = 0 THEN -1 ELSE rt.first]
       IN
       IF rt.retries5xx >= cfg.MaxRetries5xx
         THEN /\ rt' = [failed EXCEPT !.pc = "done"]
              /\ res' = ClientDo(ErrRet(Err(IF rt.cancelled THEN "ContextCanceled"
                                            ELSE "NetworkError",
                                            0, "", "", NoFields, 0)))
         ELSE /\ \E j \in JitterDraws(cfg.BaseDelay * Pow2(rt.retries5xx)) :
                    rt' = [failed EXCEPT
                             !.pc = "wait",
                             !.attempt = rt.retries5xx,
                             !.wait = calculateBackoff(rt.retries5xx, NoResponse,
                                                        cfg.BaseDelay, j),
                             !.retries5xx = rt.retries5xx + 1]
              /\ res' = res
    /\ UNCHANGED <<now, cfg>>
    /\ UNCHANGED <<brkVars, extVars>>

\* The backoff timer fires and the request is sent again.
WaitDone_IgnoresCancel ==
    /\ rt.pc = "wait"
    /\ rt' = [rt EXCEPT !.pc = "attempt", !.calls = rt.calls + 1, !.wait = 0]
    /\ UNCHANGED <<cb, now, cfg, res>>
    /\ UNCHANGED <<brkVars, extVars>>

WaitDone ==
    /\ rt.pc = "wait"
    /\ ~rt.cancelled
    /\ rt' = [rt EXCEPT !.pc = "attempt", !.calls = rt.calls + 1, !.wait = 0]
    /\ UNCHANGED <<cb, now, cfg, res>>
    /\ UNCHANGED <<brkVars, extVars>>

\* The wait sees the context done and RoundTrip returns the context's error.
WaitCancelled ==
    /\ rt.pc = "wait"
    /\ rt.cancelled
    /\ rt' = [rt EXCEPT !.pc = "done", !.wait = 0]
    /\ res' = ClientDo(ErrRet(Err("ContextCanceled", 0, "", "", NoFields, 0)))
    /\ UNCHANGED <<cb, now, cfg>>
    /\ UNCHANGED <<brkVars, extVars>>

\* The caller cancels the request's context while the send is in progress.
Cancel ==
    /\ rt.pc \in {"attempt", "wait"}
    /\ ~rt.cancelled
    /\ rt' = [rt EXCEPT !.cancelled = TRUE]
    /\ UNCHANGED <<cb, now, cfg, res>>
    /\ UNCHANGED <<brkVars, extVars>>

\* Time passes between sends, in steps of the cooldown.
TickTransport ==
    /\ rt.pc \in {"idle", "done"}
    /\ now + CircuitBreakerResetTime <= MaxTimeTransport
    /\ now' = now + CircuitBreakerResetTime
    /\ UNCHANGED <<cb, cfg, rt, res>>
    /\ UNCHANGED <<brkVars, extVars>>

NextTransport ==
    \/ SendBegin
    \/ AttemptResponse
    \/ AttemptFails
    \/ WaitDone
    \/ WaitCancelled
    \/ Cancel
    \/ TickTransport

SpecTransport == InitTransport /\ [][NextTransport]_vars


(***************************************************************************)
(* Classifier specification: Client.do is handed one response by the       *)
(* transport, of any status the tests use and any shape of body, and       *)
(* returns the response or the typed error parseErrorResponse builds.      *)
(***************************************************************************)
CodeListBody == Object([code |-> List(<<"x">>), name |-> List(<<"required">>)])
MessageListBody ==
    Object([message |-> List(<<"x">>), name |-> List(<<"required">>)])
MixedBody == Object([name |-> List(<<"required">>), description |-> Str("d")])

\* NotJSON stands for every body json.Unmarshal rejects whatever the
\* target, the empty body included; EmptyObjectBody for {} and null.
ErrorBodies ==
    {NotJSON, EmptyObjectBody, BusinessBody, DescriptionBody, ParseErrorBody,
     NumericCodeBody, ValidationBody, CodeListBody, MessageListBody, MixedBody}

ResponseStatuses == {200, 304, 400, 401, 402, 403, 404, 422, 429, 500, 503}

ClassifierInputs ==
    {[pc |-> "response", status |-> s, body |-> b] :
        s \in ResponseStatuses, b \in ErrorBodies}

InitClassifier ==
    /\ cb = NewCircuitBreaker
    /\ now = StartTime
    /\ last = NoCall
    /\ streak = 0
    /\ failAt = 0
    /\ mu = NoHolder
    /\ th = [i \in Threads |-> IdleThread]
    /\ seq = NewCircuitBreaker
    /\ nfail = 0
    /\ cfg = DefaultTransport
    /\ rt = IdleSend
    /\ res = NoResult
    /\ cl \in ClassifierInputs
    /\ pg = Unused
    /\ oa = Unused
    /\ cs = Unused

\* Client.do, from the return of httpClient.Do on.
Do ==
    /\ cl.pc = "response"
    /\ res' = ClientDo(RespRet(Response(cl.status, Absent, Absent, cl.body)))
    /\ cl' = [cl EXCEPT !.pc = "returned"]
    /\ UNCHANGED <<cb, now, cfg, rt, pg, oa, cs>>
    /\ UNCHANGED brkVars

\* The caller makes its next request and the server answers it.
NextRequest ==
    /\ cl.pc = "returned"
    /\ cl' \in ClassifierInputs
    /\ res' = NoResult
    /\ UNCHANGED <<cb, now, cfg, rt, pg, oa, cs>>
    /\ UNCHANGED brkVars

NextClassifier ==
    \/ Do
    \/ NextRequest

SpecClassifier == InitClassifier /\ [][NextClassifier]_vars


(***************************************************************************)
(* Pagination specification: CollectAllPages against a server that holds   *)
(* a chain of pages of one collection.  A URL is its path, as the list of  *)
(* its segments, and the page number of its query (0 when it has none);    *)
(* the host plays no part, CollectAllPages keeps only Path and Query of    *)
(* the next URL.  A Link header is the list of its comma-separated parts.  *)
(***************************************************************************)
URL(p, q) == [path |-> p, page |-> q]
NoURL == URL(<<>>, 0)
Part(u, rel) == [ok |-> TRUE, url |-> u, rel |-> rel]
Malformed == [ok |-> FALSE, url |-> NoURL, rel |-> ""]
NoPageInfo == [Next |-> NoURL, Prev |-> NoURL, First |-> NoURL, Last |-> NoURL]

HasNext(p) == p.Next # NoURL

RECURSIVE ParseParts(_, _)
ParseParts(parts, info) ==
    IF parts = <<>> THEN info
    ELSE LET part == Head(parts)
             next == IF ~part.ok THEN info
                     ELSE CASE part.rel = "next" -> [info EXCEPT !.Next = part.url]
                            [] part.rel = "prev" -> [info EXCEPT !.Prev = part.url]
                            [] part.rel = "first" -> [info EXCEPT !.First = part.url]
                            [] part.rel = "last" -> [info EXCEPT !.Last = part.url]
                            [] OTHER -> info
         IN  ParseParts(Tail(parts), next)

ParseLinkHeader(header) == ParseParts(header, NoPageInfo)

\* Client.url: the base URL's path, the store id, then the path given.
ClientUrl(baseURL, storeID, path) == baseURL \o <<storeID>> \o path

\* The server: where the collection lives, the link it puts on page k of
\* n, and the items of page k (numbered through the whole collection).
StoreID == "123"
Collection == <<"products">>
BaseURLs == {<<>>, <<"v1">>}
LinkStyles == {"next", "prev+next", "junk+next"}

ResourceURL(baseURL, k) == URL(baseURL \o <<StoreID>> \o Collection, k)

LinkHeaderOf(baseURL, style, k, n) ==
    LET lead == CASE style = "prev+next" /\ k > 1 ->
                       <<Part(ResourceURL(baseURL, k - 1), "prev")>>
                  [] style = "junk+next" -> <<Malformed>>
                  [] OTHER -> <<>>
    IN  IF k < n THEN lead \o <<Part(ResourceURL(baseURL, k + 1), "next")>>
        ELSE lead

RECURSIVE ItemsBefore(_, _)
ItemsBefore(sizes, k) ==
    IF k <= 1 THEN 0 ELSE ItemsBefore(sizes, k - 1) + sizes[k - 1]

ItemsOf(sizes, k) == [i \in 1..sizes[k] |-> ItemsBefore(sizes, k) + i]

RECURSIVE Concat(_, _)
Concat(sizes, k) ==
    IF k = 0 THEN <<>> ELSE Concat(sizes, k - 1) \o ItemsOf(sizes, k)

\* A server that routes by URL answers a request for a page of the
\* collection with that page and any other request with 404; the handler
\* of the test server answers its k-th request with page k whatever the URL.
PageServed(server, url, count) ==
    IF ~server.routes THEN count
    ELSE IF url.path # ResourceURL(server.baseURL, 0).path THEN 0
    ELSE IF url.page = 0 THEN 1
    ELSE IF url.page <= server.n THEN url.page
    ELSE 0

Servers ==
    {[baseURL |-> b, routes |-> r, n |-> n, sizes |-> z, style |-> y] :
        b \in BaseURLs, r \in BOOLEAN, y \in LinkStyles,
        n \in 1..MaxPages, z \in [1..MaxPages -> 1..MaxItems]}

NoPage == [status |-> 0, linkHeader |-> <<>>, items |-> <<>>]

InitPages ==
    /\ cb = NewCircuitBreaker
    /\ now = StartTime
    /\ last = NoCall
    /\ streak = 0
    /\ failAt = 0
    /\ mu = NoHolder
    /\ th = [i \in Threads |-> IdleThread]
    /\ seq = NewCircuitBreaker
    /\ nfail = 0
    /\ cfg = DefaultTransport
    /\ rt = IdleSend
    /\ res = NoResult
    /\ cl = Unused
    /\ \E server \in Servers :
         pg = [server |-> server, pc |-> "get", currentPath |-> Collection,
               currentQuery |-> 0, all |-> <<>>, requests |-> <<>>,
               resp |-> NoPage, err |-> "none"]
    /\ oa = Unused
    /\ cs = Unused

\* client.Get(ctx, currentPath, currentQuery) and the server's answer to
\* it; an answer outside 2xx ends CollectAllPages with nil and the error.
GetPage ==
    /\ pg.pc = "get"
    /\ LET url == URL(ClientUrl(pg.server.baseURL, StoreID, pg.currentPath),
                      pg.currentQuery)
           k == PageServed(pg.server, url, Len(pg.requests) + 1)
           status == IF k \in 1..pg.server.n THEN 200 ELSE 404
           ret == ClientDo(RespRet(Response(status, Absent, Absent, NotJSON)))
       IN
       /\ res' = ret
       /\ IF ret.kind = "response"
            THEN pg' = [pg EXCEPT
                          !.requests = Append(pg.requests, url),
                          !.resp = [status |-> status,
                                    linkHeader |->
                                       LinkHeaderOf(pg.server.baseURL,
                                                    pg.server.style, k,
                                                    pg.server.n),
                                    items |-> ItemsOf(pg.server.sizes, k)],
                          !.pc = "decode"]
            ELSE pg' = [pg EXCEPT
                          !.requests = Append(pg.requests, url),
                          !.resp = NoPage,
                          !.all = <<>>,
                          !.err = ret.err.type,
                          !.pc = "done"]
    /\ UNCHANGED <<cb, now, cfg, rt, cl, oa, cs>>
    /\ UNCHANGED brkVars

\* The rest of the loop body: the Link header is read, the page decoded
\* and appended, and the next relation, when there is one, becomes the
\* path and query of the next request.
AppendPage ==
    /\ pg.pc = "decode"
    /\ LET all == pg.all \o pg.resp.items
           pageInfo == ParseLinkHeader(pg.resp.linkHeader)
       IN
       IF pg.resp.linkHeader = <<>> \/ ~HasNext(pageInfo)
         THEN pg' = [pg EXCEPT !.all = all, !.pc = "done"]
         ELSE pg' = [pg EXCEPT !.all = all,
                               !.currentPath = pageInfo.Next.path,
                               !.currentQuery = pageInfo.Next.page,
                               !.pc = "get"]
    /\ UNCHANGED <<cb, now, cfg, rt, res, cl, oa, cs>>
    /\ UNCHANGED brkVars

NextPages ==
    \/ GetPage
    \/ AppendPage

SpecPages == InitPages /\ [][NextPages]_vars


(***************************************************************************)
(* Authorization specification: oauth.Authorize chooses the flow, and      *)
(* authorizeServer binds the loopback listener, serves callbacks into two  *)
(* channels of capacity 1, and returns on the first of a result, an error  *)
(* and the end of the context.  Time is counted in seconds.                *)
(***************************************************************************)
DefaultBrokerURL == "nube-cli-auth-broker.gonzaloberlati.workers.dev"
ExplicitBrokerURL == "http://broker.example.com"
Minute == 60
DefaultTimeout == 2 * Minute
ChannelCapacity == 1

\* What readOAuthClient returns: credentials, the missing-client error of
\* the credential store, or another error of the store.
CredOutcomes == {"ok", "missing", "other"}
NoCreds == "none"
TestCreds == "test-id"
ErrOAuthClientMissing == "OAuthClientMissingError"
ErrCredStore == "credstore error"

\* The decision of Authorize: the flow authorizeServer is called for, or
\* the error returned without calling it, and whether readOAuthClient ran.
Choice(flow, brokerURL, creds, err, credCalls) ==
    [flow |-> flow, brokerURL |-> brokerURL, creds |-> creds, err |-> err,
     credCalls |-> credCalls]

Authorize_AnyErrorFallsBack(brokerURL, defaultBrokerURL, cred) ==
    IF brokerURL # "" THEN Choice("broker", brokerURL, NoCreds, "", 0)
    ELSE IF cred # "ok"
      THEN IF defaultBrokerURL # ""
             THEN Choice("broker", defaultBrokerURL, NoCreds, "", 1)
             ELSE Choice("none", "", NoCreds,
                         IF cred = "missing" THEN ErrOAuthClientMissing
                         ELSE ErrCredStore, 1)
    ELSE Choice("native", "", TestCreds, "", 1)

Authorize(brokerURL, defaultBrokerURL, cred) ==
    IF brokerURL # "" THEN Choice("broker", brokerURL, NoCreds, "", 0)
    ELSE IF cred # "ok"
      THEN IF defaultBrokerURL # "" /\ cred = "missing"
             THEN Choice("broker", defaultBrokerURL, NoCreds, "", 1)
             ELSE Choice("none", "", NoCreds,
                         IF cred = "missing" THEN ErrOAuthClientMissing
                         ELSE ErrCredStore, 1)
    ELSE Choice("native", "", TestCreds, "", 1)

EffectiveTimeout_NoDefault(timeout) == timeout

\* The effective timeout of the flow's context.
EffectiveTimeout(timeout) == IF timeout <= 0 THEN DefaultTimeout ELSE timeout

\* A request to the loopback server: its path and the query parameters
\* the handler reads.
RandomState == "S"
Query(path, error, token, user, state, code) ==
    [path |-> path, error |-> error, token |-> token, user_id |-> user,
     state |-> state, code |-> code]

\* The requests drawn: a provider-reported error, the broker's redirect
\* with a token, the provider's redirect with or without a code, each with
\* the right and with a wrong state; one request carrying every parameter;
\* and one request for another path.
States == {RandomState, "wrong"}

Requests ==
    {Query("/callback", "access_denied", "", "", st, "") : st \in States}
    \cup {Query("/callback", "", "tok", "42", st, "") : st \in States}
    \cup {Query("/callback", "", "", "", st, c) : st \in States, c \in {"", "c"}}
    \cup {Query("/callback", "access_denied", "tok", "42", RandomState, "c")}
    \cup {Query("/favicon.ico", "", "", "", "", "")}

\* What the handler sends, and on which channel.
NoMessage == [ch |-> "none", token |-> "", userID |-> "", code |-> "", err |-> ""]
Result(token, userID, code) ==
    [ch |-> "resultCh", token |-> token, userID |-> userID, code |-> code,
     err |-> ""]
Failure(err) ==
    [ch |-> "errCh", token |-> "", userID |-> "", code |-> "", err |-> err]

Handler_TokenAsCode(q, isBroker, state) ==
    IF q.path # "/callback" THEN NoMessage
    ELSE IF q.error # "" THEN Failure("errAuthorization")
    ELSE IF q.token # "" THEN Result("", "", q.token)
    ELSE IF ~isBroker
      THEN IF q.state # state THEN Failure("errStateMismatch")
           ELSE IF q.code = "" THEN Failure("errMissingCode")
           ELSE Result("", "", q.code)
    ELSE Failure("errNoAccessToken")

Handler(q, isBroker, state) ==
    IF q.path # "/callback" THEN NoMessage
    ELSE IF q.error # "" THEN Failure("errAuthorization")
    ELSE IF q.token # "" THEN Result(q.token, q.user_id, "")
    ELSE IF ~isBroker
      THEN IF q.state # state THEN Failure("errStateMismatch")
           ELSE IF q.code = "" THEN Failure("errMissingCode")
           ELSE Result("", "", q.code)
    ELSE Failure("errNoAccessToken")

\* select { case ch <- m: default: } on a channel of capacity 1.
TrySend(ch, m) == IF Len(ch) < ChannelCapacity THEN Append(ch, m) ELSE ch

\* What woke a parked select: the case and, for a channel, the message.
NoWake == [case |-> "none", msg |-> [m |-> NoMessage, from |-> 0]]

NoOutcome ==
    [kind |-> "none", AccessToken |-> "", UserID |-> "", err |-> "", from |-> 0]
Token(token, userID, from) ==
    [kind |-> "token", AccessToken |-> token, UserID |-> userID, err |-> "",
     from |-> from]
Failed(err, from) ==
    [kind |-> "error", AccessToken |-> "", UserID |-> "", err |-> err,
     from |-> from]

\* The outcomes of the POST to the token endpoint.
ExchangeOutcomes == {"ok", "http", "empty", "decode", "transport"}
ExchangedToken == "exchanged"

AuthorizeOptions ==
    {[Timeout |-> t, BrokerURL |-> b] :
        t \in {0, Minute}, b \in {"", ExplicitBrokerURL}}

InitOAuth ==
    /\ cb = NewCircuitBreaker
    /\ now = StartTime
    /\ last = NoCall
    /\ streak = 0
    /\ failAt = 0
    /\ mu = NoHolder
    /\ th = [i \in Threads |-> IdleThread]
    /\ seq = NewCircuitBreaker
    /\ nfail = 0
    /\ cfg = DefaultTransport
    /\ rt = IdleSend
    /\ res = NoResult
    /\ cl = Unused
    /\ pg = Unused
    /\ cs = Unused
    /\ \E opts \in AuthorizeOptions, cred \in CredOutcomes,
          dflt \in {DefaultBrokerURL, ""}, busy \in BOOLEAN :
         oa = [pc |-> "choosing", opts |-> opts, cred |-> cred,
               defaultBrokerURL |-> dflt, portBusy |-> busy,
               flow |-> "none", brokerURL |-> "", creds |-> NoCreds,
               credCalls |-> 0, state |-> "", timeout |-> 0, elapsed |-> 0,
               ctx |-> "live", ln |-> "none", srv |-> "none",
               browser |-> "none", resultCh |-> <<>>, errCh |-> <<>>,
               cbs |-> <<>>, code |-> "", codeFrom |-> 0,
               exchanges |-> <<>>, wake |-> NoWake, ret |-> NoOutcome]

othVars == <<cb, now, cfg, rt, res, cl, pg, cs>>

\* Authorize up to its call of authorizeServer, and the first lines of
\* authorizeServer: the flow is chosen, and the native flow draws its state.
ChooseFlow ==
    /\ oa.pc = "choosing"
    /\ LET c == Authorize(oa.opts.BrokerURL, oa.defaultBrokerURL, oa.cred) IN
       IF c.err # ""
         THEN oa' = [oa EXCEPT !.pc = "done", !.credCalls = c.credCalls,
                               !.timeout = EffectiveTimeout(oa.opts.Timeout),
                               !.ret = Failed(c.err, 0)]
         ELSE oa' = [oa EXCEPT !.pc = "listen", !.credCalls = c.credCalls,
                               !.timeout = EffectiveTimeout(oa.opts.Timeout),
                               !.flow = c.flow, !.brokerURL = c.brokerURL,
                               !.creds = c.creds,
                               !.state = IF c.flow = "native" THEN RandomState
                                         ELSE ""]
    /\ UNCHANGED othVars
    /\ UNCHANGED brkVars

\* The listener is bound to the callback port and the two goroutines are
\* started; a port held by another process ends the flow.
Listen ==
    /\ oa.pc = "listen"
    /\ IF oa.portBusy
         THEN oa' = [oa EXCEPT !.pc = "done",
                               !.ret = Failed("listen for callback", 0)]
         ELSE oa' = [oa EXCEPT !.pc = "browser", !.ln = "open",
                               !.srv = "serving"]
    /\ UNCHANGED othVars
    /\ UNCHANGED brkVars

\* openBrowserFn is called and its error ignored.
OpenBrowser ==
    /\ oa.pc = "browser"
    /\ \E opened \in BOOLEAN :
         oa' = [oa EXCEPT !.pc = "select",
                          !.browser = IF opened THEN "opened" ELSE "failed"]
    /\ UNCHANGED othVars
    /\ UNCHANGED brkVars

\* The positions of authorizeServer at which the server goroutines run.
Running == {"browser", "select", "parked", "woken", "exchange"}

\* A send on resultCh or errCh.  A receiver parked in the final select is
\* handed the message and leaves the select by that case; otherwise the
\* message is buffered unless the channel is full.
Deliver(o, ch, msg) ==
    IF o.pc = "parked"
      THEN [o EXCEPT !.pc = "woken", !.wake = [case |-> ch, msg |-> msg]]
    ELSE IF ch = "resultCh"
      THEN [o EXCEPT !.resultCh = TrySend(o.resultCh, msg)]
    ELSE [o EXCEPT !.errCh = TrySend(o.errCh, msg)]

Delivered(o, ch) ==
    \/ o.pc = "parked"
    \/ ch = "resultCh" /\ Len(o.resultCh) < ChannelCapacity
    \/ ch = "errCh" /\ Len(o.errCh) < ChannelCapacity

\* The context ends: a receiver parked in the final select leaves it by
\* the case <-ctx.Done().
EndContext(o, cause) ==
    IF o.pc = "parked"
      THEN [o EXCEPT !.ctx = cause, !.pc = "woken",
                     !.wake = [NoWake EXCEPT !.case = "ctx"]]
      ELSE [o EXCEPT !.ctx = cause]

\* The loopback server handles one request: the handler's message is sent
\* on its channel without blocking.  The request is logged with the
\* channel it was for, whether the message was taken, and the state of
\* the context when it arrived.
CallbackArrives ==
    /\ oa.pc \in Running
    /\ oa.srv = "serving"
    /\ Len(oa.cbs) < MaxCallbacks
    /\ \E q \in Requests :
         LET m == Handler(q, oa.flow = "broker", oa.state)
             msg == [m |-> m, from |-> Len(oa.cbs) + 1]
             entry == [q |-> q, ch |-> m.ch,
                       sent |-> m.ch # "none" /\ Delivered(oa, m.ch),
                       ctx |-> oa.ctx]
             logged == [oa EXCEPT !.cbs = Append(oa.cbs, entry)]
         IN  oa' = IF m.ch = "none" THEN logged
                   ELSE Deliver(logged, m.ch, msg)
    /\ UNCHANGED othVars
    /\ UNCHANGED brkVars

\* srv.Serve returns an error other than ErrServerClosed.
ServeFails ==
    /\ oa.pc \in Running
    /\ oa.srv = "serving"
    /\ oa' = Deliver([oa EXCEPT !.srv = "failed"], "errCh",
                     [m |-> Failure("serveErr"), from |-> 0])
    /\ UNCHANGED othVars
    /\ UNCHANGED brkVars

\* Time passes while the flow waits.
Elapse ==
    /\ oa.pc \in Running
    /\ oa.ctx = "live"
    /\ oa.elapsed < oa.timeout
    /\ oa' = [oa EXCEPT !.elapsed = oa.elapsed + Minute]
    /\ UNCHANGED othVars
    /\ UNCHANGED brkVars

\* The deadline of context.WithTimeout(ctx, opts.Timeout) passes.
Deadline ==
    /\ oa.pc \in Running
    /\ oa.ctx = "live"
    /\ oa.elapsed >= oa.timeout
    /\ oa' = EndContext(oa, "DeadlineExceeded")
    /\ UNCHANGED othVars
    /\ UNCHANGED brkVars

\* The caller cancels the context it passed to Authorize.
CallerCancels ==
    /\ oa.pc \in Running
    /\ oa.ctx = "live"
    /\ oa' = EndContext(oa, "Canceled")
    /\ UNCHANGED othVars
    /\ UNCHANGED brkVars

\* The goroutine waiting on ctx.Done closes the server and its listener.
CloseOnDone ==
    /\ oa.pc \in Running
    /\ oa.ctx # "live"
    /\ oa.srv \in {"serving", "failed"}
    /\ oa' = [oa EXCEPT !.srv = "closed", !.ln = "closed"]
    /\ UNCHANGED othVars
    /\ UNCHANGED brkVars

Return_ListenerLeftOpen(outcome) == [oa EXCEPT !.pc = "done", !.ret = outcome]

\* authorizeServer returns: the server was closed or shut down by the
\* branch taken, and the deferred ln.Close has run.
Return(outcome) ==
    [oa EXCEPT !.pc = "done", !.ret = outcome, !.srv = "closed",
               !.ln = "closed"]

\* The final select finds no case ready and parks the goroutine.
Park ==
    /\ oa.pc = "select"
    /\ oa.resultCh = <<>>
    /\ oa.errCh = <<>>
    /\ oa.ctx = "live"
    /\ oa' = [oa EXCEPT !.pc = "parked"]
    /\ UNCHANGED othVars
    /\ UNCHANGED brkVars

\* Whether the final select leaves by the given case: on entry any ready
\* case may be chosen; a parked select leaves by the case that woke it.
Leaves(case, ready) ==
    \/ oa.pc = "select" /\ ready
    \/ oa.pc = "woken" /\ oa.wake.case = case

\* The final select, case res := <-resultCh.
TakeResult ==
    /\ Leaves("resultCh", oa.resultCh # <<>>)
    /\ LET r == IF oa.pc = "woken" THEN oa.wake.msg ELSE Head(oa.resultCh)
           rest == IF oa.pc = "woken" THEN oa.resultCh ELSE <<>>
       IN
       IF r.m.token # ""
         THEN oa' = [Return(Token(r.m.token, r.m.userID, r.from))
                       EXCEPT !.resultCh = rest]
         ELSE oa' = [oa EXCEPT !.pc = "exchange", !.resultCh = rest,
                               !.code = r.m.code, !.codeFrom = r.from]
    /\ UNCHANGED othVars
    /\ UNCHANGED brkVars

\* The final select, case err := <-errCh.
TakeError ==
    /\ Leaves("errCh", oa.errCh # <<>>)
    /\ LET e == IF oa.pc = "woken" THEN oa.wake.msg ELSE Head(oa.errCh)
           rest == IF oa.pc = "woken" THEN oa.errCh ELSE <<>>
       IN  oa' = [Return(Failed(e.m.err, e.from)) EXCEPT !.errCh = rest]
    /\ UNCHANGED othVars
    /\ UNCHANGED brkVars

\* The final select, case <-ctx.Done().
TimedOut ==
    /\ Leaves("ctx", oa.ctx # "live")
    /\ oa' = Return(Failed("authorization timed out", 0))
    /\ UNCHANGED othVars
    /\ UNCHANGED brkVars

\* exchangeCode: the code is posted to the token endpoint; with the
\* context done the request can only fail.
ExchangeCode ==
    /\ oa.pc = "exchange"
    /\ \E out \in IF oa.ctx = "live" THEN ExchangeOutcomes ELSE {"transport"} :
         LET sent == [oa EXCEPT !.exchanges =
                         Append(oa.exchanges,
                                [code |-> oa.code, from |-> oa.codeFrom])]
             outcome ==
                CASE out = "ok" -> Token(ExchangedToken, "42", oa.codeFrom)
                  [] out = "http" -> Failed("errTokenExchange", oa.codeFrom)
                  [] out = "empty" -> Failed("errNoAccessToken", oa.codeFrom)
                  [] out = "decode" ->
                       Failed("decode token response", oa.codeFrom)
                  [] OTHER -> Failed("token exchange", oa.codeFrom)
         IN  oa' = [sent EXCEPT !.pc = "done", !.ret = outcome,
                                !.srv = "closed", !.ln = "closed"]
    /\ UNCHANGED othVars
    /\ UNCHANGED brkVars

NextOAuth ==
    \/ ChooseFlow
    \/ Listen
    \/ OpenBrowser
    \/ CallbackArrives
    \/ ServeFails
    \/ Elapse
    \/ Deadline
    \/ CallerCancels
    \/ CloseOnDone
    \/ Park
    \/ TakeResult
    \/ TakeError
    \/ TimedOut
    \/ ExchangeCode

SpecOAuth == InitOAuth /\ [][NextOAuth]_vars

\* The flow when no request reaches the loopback server.  The goroutine
\* of authorizeServer keeps running, time passes and the context's timer
\* fires: these steps are weakly fair.
NextNoCallback ==
    \/ ChooseFlow
    \/ Listen
    \/ OpenBrowser
    \/ ServeFails
    \/ Elapse
    \/ Deadline
    \/ CallerCancels
    \/ CloseOnDone
    \/ Park
    \/ TakeError
    \/ TimedOut

SpecNoCallback ==
    /\ InitOAuth
    /\ [][NextNoCallback]_vars
    /\ WF_vars(ChooseFlow \/ Listen \/ OpenBrowser \/ Park \/ TakeError
                 \/ TimedOut)
    /\ WF_vars(Elapse)
    /\ WF_vars(Deadline)


(***************************************************************************)
(* Credential store specification: SetStore, RemoveStore and SetDefault    *)
(* on the credential file, starting from no file.  Each call reads the     *)
(* file, changes its copy and writes it back; a call that fails, also in   *)
(* Write, leaves the file as it was.  Stores is a function from the names  *)
(* of the stores present to their profiles.                                *)
(***************************************************************************)
StoreNames == {"first", "second", "third"}
StoreProfiles ==
    {[StoreID |-> "1", AccessToken |-> t] : t \in {"t1", "t2"}}
NoProfile == [StoreID |-> "", AccessToken |-> ""]

\* Read of a file that does not exist.
EmptyFile == [DefaultStore |-> "", Stores |-> [n \in {} |-> NoProfile]]

Put(stores, name, profile) ==
    [n \in DOMAIN stores \cup {name} |->
        IF n = name THEN profile ELSE stores[n]]
Delete(stores, name) == [n \in DOMAIN stores \ {name} |-> stores[n]]
TheKey(stores) == CHOOSE k \in DOMAIN stores : TRUE

SetStore(f, name, profile) ==
    LET stores == Put(f.Stores, name, profile) IN
    [err |-> "",
     f |-> [DefaultStore |-> IF Cardinality(DOMAIN stores) = 1 THEN name
                             ELSE f.DefaultStore,
            Stores |-> stores]]

RemoveStore_KeepsDefault(f, name) ==
    IF name \notin DOMAIN f.Stores THEN [err |-> "errStoreNotFound", f |-> f]
    ELSE [err |-> "", f |-> [f EXCEPT !.Stores = Delete(f.Stores, name)]]

RemoveStore(f, name) ==
    IF name \notin DOMAIN f.Stores THEN [err |-> "errStoreNotFound", f |-> f]
    ELSE LET stores == Delete(f.Stores, name) IN
         [err |-> "",
          f |-> [DefaultStore |->
                    IF f.DefaultStore # name THEN f.DefaultStore
                    ELSE IF Cardinality(DOMAIN stores) = 1 THEN TheKey(stores)
                    ELSE "",
                 Stores |-> stores]]

SetDefault(f, name) ==
    IF name \notin DOMAIN f.Stores THEN [err |-> "errStoreNotFound", f |-> f]
    ELSE [err |-> "", f |-> [f EXCEPT !.DefaultStore = name]]

NoStoreCall == [op |-> "none", name |-> "", profile |-> NoProfile, err |-> "",
                pre |-> EmptyFile]

InitCredstore ==
    /\ cb = NewCircuitBreaker
    /\ now = StartTime
    /\ last = NoCall
    /\ streak = 0
    /\ failAt = 0
    /\ mu = NoHolder
    /\ th = [i \in Threads |-> IdleThread]
    /\ seq = NewCircuitBreaker
    /\ nfail = 0
    /\ cfg = DefaultTransport
    /\ rt = IdleSend
    /\ res = NoResult
    /\ cl = Unused
    /\ pg = Unused
    /\ oa = Unused
    /\ cs = [file |-> EmptyFile, last |-> NoStoreCall]

\* The end of a call: its error return, or Write(f), which replaces the
\* file or fails and leaves it.
Finish(op, name, profile, r) ==
    \E written \in BOOLEAN :
       LET err == IF r.err # "" THEN r.err
                  ELSE IF written THEN "" ELSE "write credentials"
       IN  cs' = [file |-> IF err = "" THEN r.f ELSE cs.file,
                  last |-> [op |-> op, name |-> name, profile |-> profile,
                            err |-> err, pre |-> cs.file]]

CallSetStore ==
    /\ \E name \in StoreNames, profile \in StoreProfiles :
          Finish("SetStore", name, profile, SetStore(cs.file, name, profile))
    /\ UNCHANGED <<cb, now, cfg, rt, res, cl, pg, oa>>
    /\ UNCHANGED brkVars

CallRemoveStore ==
    /\ \E name \in StoreNames :
          Finish("RemoveStore", name, NoProfile, RemoveStore(cs.file, name))
    /\ UNCHANGED <<cb, now, cfg, rt, res, cl, pg, oa>>
    /\ UNCHANGED brkVars

CallSetDefault ==
    /\ \E name \in StoreNames :
          Finish("SetDefault", name, NoProfile, SetDefault(cs.file, name))
    /\ UNCHANGED <<cb, now, cfg, rt, res, cl, pg, oa>>
    /\ UNCHANGED brkVars

NextCredstore ==
    \/ CallSetStore
    \/ CallRemoveStore
    \/ CallSetDefault

SpecCredstore == InitCredstore /\ [][NextCredstore]_vars


(***************************************************************************)
(* C1: starting from a closed breaker, RecordFailure opens the circuit on  *)
(* exactly the 5th consecutive call and on none of the first four; a       *)
(* RecordSuccess resets the streak, so 4 further failures leave it closed. *)
(***************************************************************************)
C1_OpensOnFifthFailure ==
    /\ streak < 5 => ~cb.open
    /\ (last.op = "RecordFailure" /\ streak < 5) => ~last.ret
    /\ (last.op = "RecordFailure" /\ streak = 5) =>
          cb.open /\ last.ret /\ ~last.pre.open
    /\ last.op = "RecordSuccess" => streak = 0 /\ ~cb.open

C1_Witness ==
    /\ last.op = "RecordFailure"
    /\ streak = 5
    /\ cb.open
    /\ last.ret
    /\ now > StartTime

(***************************************************************************)
(* C2: in every reachable state the open flag is true if and only if the   *)
(* consecutive-failure counter is at least the threshold 5.                *)
(***************************************************************************)
C2_OpenIffAtThreshold == cb.open <=> cb.failures >= 5

C2_Witness ==
    /\ cb.open
    /\ cb.failures = 6
    /\ last.op = "IsOpen"
    /\ last.ret

(***************************************************************************)
(* C3: on an open breaker IsOpen returns false and resets the open flag    *)
(* and the counter exactly when more than 30 seconds have passed since the *)
(* most recent RecordFailure (also one recorded while open); otherwise it  *)
(* returns true and changes nothing.                                       *)
(***************************************************************************)
C3_CooldownReset ==
    (last.op = "IsOpen" /\ last.pre.open) =>
        IF last.at - failAt > 30
          THEN ~last.ret /\ ~cb.open /\ cb.failures = 0
          ELSE last.ret /\ cb = last.pre

C3_Witness ==
    /\ last.op = "IsOpen"
    /\ last.pre.open
    /\ last.pre.failures = 6
    /\ last.at - failAt = 31
    /\ ~last.ret
    /\ cb.failures = 0

(***************************************************************************)
(* C4: under any interleaving of concurrent callers every call takes       *)
(* effect atomically under the one mutex: at most one goroutine is inside  *)
(* a method body, no RecordFailure increment is lost, what a call sees and *)
(* returns is what it would in the sequential order of the returns, and a  *)
(* started call can always proceed (the holder never locks again).         *)
(***************************************************************************)
InBody(i) == th[i].pc \notin {"idle", "lock"}

C4_AtomicUnderMutex ==
    /\ \A i, j \in Threads : (InBody(i) /\ InBody(j)) => i = j
    /\ \A i \in Threads : InBody(i) => mu = i
    /\ (\A i \in Threads : ~InBody(i)) => (cb = seq /\ cb.failures = nfail)
    /\ \A i \in Threads : th[i].pc = "unlock" =>
          LET r == Apply(th[i].op, seq, th[i].t) IN
          cb = r.cb /\ th[i].ret = r.ret
    /\ (\E i \in Threads : th[i].pc # "idle") =>
          \E i \in Threads : th[i].pc # "idle" /\ ENABLED Step(i)

C4_Witness ==
    /\ nfail = 2
    /\ cb.failures = 3
    /\ th[1].pc = "unlock" /\ th[1].op = "RecordFailure"
    /\ th[2].pc = "lock" /\ th[2].op = "RecordFailure"

(***************************************************************************)
(* C5: whenever the breaker reports open at the start of a send, the send  *)
(* fails at once with a CircuitBreakerError and makes no network call.     *)
(***************************************************************************)
C5_OpenBreakerRejects ==
    rt.sawOpen =>
        /\ rt.pc = "done"
        /\ rt.calls = 0
        /\ res.kind = "error"
        /\ res.err.type = "CircuitBreakerError"

C5_Witness ==
    /\ rt.sawOpen
    /\ rt.pc = "done"
    /\ cb.open
    /\ res.err.type = "CircuitBreakerError"
    /\ res.err.Failures >= 5

(***************************************************************************)
(* C6: a send answered with a status in 200..299 returns that response as  *)
(* received and without error, after exactly one network call.             *)
(***************************************************************************)
Is2xx(status) == status >= 200 /\ status <= 299

C6_SuccessReturnedOnce ==
    /\ Is2xx(rt.first) =>
          /\ rt.pc = "done"
          /\ rt.calls = 1
    /\ Is2xx(rt.resp.status) =>
          /\ rt.pc = "done"
          /\ res = [kind |-> "response", resp |-> rt.resp, err |-> NoError]

C6_Witness ==
    /\ rt.first = 299
    /\ rt.pc = "done"
    /\ rt.calls = 1
    /\ res.kind = "response"
    /\ res.resp.status = 299

(***************************************************************************)
(* C7: a send whose every attempt is answered 429 makes at most            *)
(* 1 + MaxRetries429 network calls (6 with the default limit of 5), and    *)
(* exactly that many when it runs until the limit is exhausted.            *)
(***************************************************************************)
C7_RateLimitRetriesBounded ==
    rt.seen = {"429"} =>
        /\ rt.calls <= 1 + cfg.MaxRetries429
        /\ cfg.MaxRetries429 = 5 => rt.calls <= 6
        /\ (rt.pc = "done" /\ ~rt.cancelled) => rt.calls = 1 + cfg.MaxRetries429

C7_Witness ==
    /\ rt.seen = {"429"}
    /\ rt.pc = "done"
    /\ ~rt.cancelled
    /\ cfg.MaxRetries429 = 5
    /\ rt.calls = 6

(***************************************************************************)
(* C8: the wait before a retry is the rate-limit-reset header read as      *)
(* milliseconds when that header is present (3000 gives 3s, also next to a *)
(* Retry-After), else Retry-After read as seconds, else                    *)
(* BaseDelay * 2^attempt plus a jitter of at most half of that.            *)
(***************************************************************************)
C8_BackoffPriority ==
    rt.pc = "wait" =>
        IF rt.resp.reset # Absent
          THEN /\ rt.wait = rt.resp.reset[1] * Millisecond
               /\ rt.resp.reset = <<3000>> => rt.wait = 3 * Second
        ELSE IF rt.resp.retryAfter # Absent
          THEN rt.wait = rt.resp.retryAfter[1] * Second
        ELSE /\ rt.wait >= cfg.BaseDelay * 2 ^ rt.attempt
             /\ 2 * rt.wait <= 3 * cfg.BaseDelay * 2 ^ rt.attempt

C8_Witness ==
    /\ rt.pc = "wait"
    /\ rt.resp.reset = <<3000>>
    /\ rt.resp.retryAfter = <<10>>
    /\ rt.wait = 3 * Second

(***************************************************************************)
(* C9: a send answered 429 until the retry limit is exhausted gives the    *)
(* caller a RateLimitError, not an APIError and not a plain response.      *)
(***************************************************************************)
C9_RateLimitErrorOnExhaustion ==
    (rt.pc = "done" /\ rt.seen = {"429"} /\ ~rt.cancelled) =>
        /\ res.kind = "error"
        /\ res.err.type = "RateLimitError"

(***************************************************************************)
(* C10: a send whose every attempt is answered 5xx makes at most           *)
(* 1 + MaxRetries5xx network calls (3 with the default limit of 2), and    *)
(* the error the caller gets carries the status of the last response.      *)
(***************************************************************************)
C10_ServerErrorRetriesBounded ==
    rt.seen = {"5xx"} =>
        /\ rt.calls <= 1 + cfg.MaxRetries5xx
        /\ cfg.MaxRetries5xx = 2 => rt.calls <= 3
        /\ (rt.pc = "done" /\ ~rt.cancelled) =>
              /\ rt.calls = 1 + cfg.MaxRetries5xx
              /\ res.kind = "error"
              /\ res.err.type = "APIError"
              /\ res.err.StatusCode = rt.resp.status

C10_Witness ==
    /\ rt.seen = {"5xx"}
    /\ rt.pc = "done"
    /\ ~rt.cancelled
    /\ rt.first = 500
    /\ rt.resp.status = 503
    /\ rt.calls = 3
    /\ res.err.StatusCode = 503

(***************************************************************************)
(* C11: a response whose status is neither 2xx, 429 nor 5xx (404, 422)     *)
(* ends the send at once: when it is the first answer the send made        *)
(* exactly one network call, it is never followed by a wait or another     *)
(* call, and the step that receives it leaves the breaker as it was, so a  *)
(* run of such responses never opens the breaker.                          *)
(***************************************************************************)
IsOther(status) == status >= 300 /\ StatusClass(status) = "other"

C11_ClientErrorNotRetried ==
    /\ []((rt.resp # NoResponse /\ IsOther(rt.resp.status)) =>
             /\ rt.pc = "done"
             /\ rt.wait = 0
             /\ IsOther(rt.first) => rt.calls = 1)
    /\ [][(rt.pc = "attempt" /\ rt'.resp # NoResponse
             /\ IsOther(rt'.resp.status)) =>
             /\ cb' = cb
             /\ rt'.calls = rt.calls
             /\ rt'.retries429 = rt.retries429
             /\ rt'.retries5xx = rt.retries5xx]_vars

C11_Witness ==
    /\ rt.pc = "done"
    /\ rt.first = 422
    /\ rt.resp.status = 422
    /\ rt.calls = 1
    /\ cb.failures = CircuitBreakerThreshold - 1
    /\ ~cb.open
    /\ res.kind = "error"

(***************************************************************************)
(* C12: once the context is cancelled while the send is in a backoff wait  *)
(* (cancelled before the wait began or during it), no further network call *)
(* is made: the only step out of the wait ends the send with the           *)
(* cancellation as its error.                                              *)
(***************************************************************************)
C12_CancelStopsRetrying ==
    [][(rt.pc = "wait" /\ rt.cancelled) =>
          /\ rt'.calls = rt.calls
          /\ rt'.pc \in {"wait", "done"}
          /\ rt'.pc = "done" =>
                /\ res'.kind = "error"
                /\ res'.err.type = "ContextCanceled"]_vars

C12_Witness ==
    /\ rt.pc = "done"
    /\ rt.cancelled
    /\ rt.seen = {"429"}
    /\ rt.calls = 1
    /\ res.kind = "error"
    /\ res.err.type = "ContextCanceled"

(***************************************************************************)
(* C13: whatever mix of 429 responses, 5xx responses and transport         *)
(* failures a send meets, its two retry counters never pass their limits   *)
(* and it makes at most 1 + MaxRetries429 + MaxRetries5xx network calls.   *)
(***************************************************************************)
C13_AttemptsBounded ==
    /\ rt.retries429 <= cfg.MaxRetries429
    /\ rt.retries5xx <= cfg.MaxRetries5xx
    /\ rt.calls <= 1 + cfg.MaxRetries429 + cfg.MaxRetries5xx

C13_Witness ==
    /\ rt.pc = "done"
    /\ ~rt.cancelled
    /\ {"429", "5xx", "failure"} \subseteq rt.seen
    /\ cfg = DefaultTransport
    /\ rt.calls = 1 + DefaultMaxRetries429 + DefaultMaxRetries5xx

(***************************************************************************)
(* C14: for every response whose status is outside 200..299 Client.do      *)
(* returns one typed error and no response, and at 401, 402, 403 and 404   *)
(* the type of the error is AuthError, PaymentRequiredError,               *)
(* PermissionDeniedError and NotFoundError whatever the body holds.        *)
(***************************************************************************)
ErrorTypes ==
    {"AuthError", "PaymentRequiredError", "PermissionDeniedError",
     "NotFoundError", "ValidationError", "APIError"}

C14_OneTypedErrorPerFailure ==
    (cl.pc = "returned" /\ ~Is2xx(cl.status)) =>
        /\ res.kind = "error"
        /\ res.resp = NoResponse
        /\ res.err.type \in ErrorTypes
        /\ cl.status = 401 => res.err.type = "AuthError"
        /\ cl.status = 402 => res.err.type = "PaymentRequiredError"
        /\ cl.status = 403 => res.err.type = "PermissionDeniedError"
        /\ cl.status = 404 => res.err.type = "NotFoundError"

C14_Witness ==
    /\ cl.pc = "returned"
    /\ cl.status = 401
    /\ cl.body = ValidationBody
    /\ res.kind = "error"
    /\ res.err.type = "AuthError"

(***************************************************************************)
(* C15: at 422 the error is a ValidationError exactly when the body is a   *)
(* JSON object with at least one key, every value a list of strings, and   *)
(* neither the key code nor the key message; otherwise at 422 it is an     *)
(* APIError; at every other status it is never a ValidationError.          *)
(***************************************************************************)
IsFieldMap(body) ==
    /\ body.json
    /\ \E k \in Keys : Has(body, k)
    /\ \A k \in Keys : Has(body, k) => body.obj[k].t = "list"
    /\ ~Has(body, "code")
    /\ ~Has(body, "message")

C15_ValidationOnlyForFieldMap ==
    cl.pc = "returned" =>
        /\ cl.status = 422 =>
              /\ res.kind = "error"
              /\ IsFieldMap(cl.body) <=> res.err.type = "ValidationError"
              /\ ~IsFieldMap(cl.body) => res.err.type = "APIError"
        /\ cl.status # 422 => res.err.type # "ValidationError"

C15_Witness ==
    /\ cl.pc = "returned"
    /\ cl.status = 422
    /\ cl.body = ValidationBody
    /\ res.err.type = "ValidationError"
    /\ res.err.Fields = ValidationBody.obj

(***************************************************************************)
(* C16 as stated: for a body that is not JSON (or is empty) at a non-2xx   *)
(* status, the error is an APIError carrying the status and an empty       *)
(* message.                                                                *)
(***************************************************************************)
C16_GenericForNonJSON ==
    (cl.pc = "returned" /\ ~Is2xx(cl.status) /\ cl.body = NotJSON) =>
        /\ res.kind = "error"
        /\ res.err.type = "APIError"
        /\ res.err.StatusCode = cl.status
        /\ res.err.Message = ""

(***************************************************************************)
(* C16 amended: for a body that is not JSON (or is empty) at a non-2xx     *)
(* status, Client.do still returns a typed error with an empty message:    *)
(* the variant fixed by the status at 401, 402, 403 and 404, and at every  *)
(* other status an APIError carrying the status code.                      *)
(***************************************************************************)
StatusFixed == {401, 402, 403, 404}

C16_TypedErrorForNonJSON ==
    (cl.pc = "returned" /\ ~Is2xx(cl.status) /\ cl.body = NotJSON) =>
        /\ res.kind = "error"
        /\ res.err.type \in ErrorTypes
        /\ res.err.Message = ""
        /\ res.err.Code = ""
        /\ cl.status \notin StatusFixed =>
              /\ res.err.type = "APIError"
              /\ res.err.StatusCode = cl.status

C16_Witness ==
    /\ cl.pc = "returned"
    /\ cl.status = 500
    /\ cl.body = NotJSON
    /\ res.err.type = "APIError"
    /\ res.err.StatusCode = 500
    /\ res.err.Message = ""

(***************************************************************************)
(* C17: when CollectAllPages has returned from a chain of n pages linked   *)
(* by next, it returned no error and the items of all n pages in page      *)
(* order, after exactly n GET requests; in particular a single page        *)
(* without a Link header gives that page's items after one request.        *)
(***************************************************************************)
C17_AllPagesInOrder ==
    pg.pc = "done" =>
        /\ pg.err = "none"
        /\ pg.all = Concat(pg.server.sizes, pg.server.n)
        /\ Len(pg.requests) = pg.server.n
        /\ (pg.server.n = 1 /\ pg.server.style = "next") =>
              /\ pg.all = ItemsOf(pg.server.sizes, 1)
              /\ Len(pg.requests) = 1

(***************************************************************************)
(* C18: once Authorize has chosen, if a broker URL is configured, in the   *)
(* options or as the built-in default, the flow is the broker flow and     *)
(* readOAuthClient was not called.                                         *)
(***************************************************************************)
C18_BrokerSkipsCredentials ==
    (oa.pc # "choosing"
       /\ (oa.opts.BrokerURL # "" \/ oa.defaultBrokerURL # "")) =>
        /\ oa.flow = "broker"
        /\ oa.credCalls = 0

(***************************************************************************)
(* C19: with no broker URL in the options, a missing OAuth client makes    *)
(* Authorize run the broker flow against the default broker when there is  *)
(* one, and return the missing-client error when there is none; any other  *)
(* error of the credential source is returned as it is, and in both        *)
(* failures no listener is bound and no server started.                    *)
(***************************************************************************)
C19_MissingCredentialsFallBack ==
    (oa.pc # "choosing" /\ oa.opts.BrokerURL = "") =>
        /\ (oa.cred = "missing" /\ oa.defaultBrokerURL # "") =>
              /\ oa.flow = "broker"
              /\ oa.brokerURL = oa.defaultBrokerURL
              /\ oa.ret.err # ErrOAuthClientMissing
        /\ (oa.cred = "missing" /\ oa.defaultBrokerURL = "") =>
              /\ oa.pc = "done"
              /\ oa.ret = Failed(ErrOAuthClientMissing, 0)
              /\ oa.ln = "none"
        /\ oa.cred = "other" =>
              /\ oa.pc = "done"
              /\ oa.flow = "none"
              /\ oa.ret = Failed(ErrCredStore, 0)
              /\ oa.ln = "none"
              /\ oa.srv = "none"

C19_Witness ==
    /\ oa.opts.BrokerURL = ""
    /\ oa.cred = "missing"
    /\ oa.defaultBrokerURL = DefaultBrokerURL
    /\ oa.credCalls = 1
    /\ oa.flow = "broker"
    /\ oa.ln = "open"
    /\ oa.pc = "select"

(***************************************************************************)
(* C20: in the native flow, a request to /callback whose state parameter   *)
(* is not the state drawn for this flow never has a code posted to the     *)
(* token endpoint on its behalf, and when it is the request that decides   *)
(* the outcome, the outcome is the state-mismatch error.                   *)
(***************************************************************************)
C20_StateMismatchFails ==
    \A i \in 1..Len(oa.cbs) :
        (oa.flow = "native" /\ oa.cbs[i].q.path = "/callback"
           /\ oa.cbs[i].q.state # oa.state) =>
            /\ \A k \in 1..Len(oa.exchanges) : oa.exchanges[k].from # i
            /\ (oa.pc = "done" /\ oa.ret.from = i) =>
                  oa.ret = Failed("errStateMismatch", i)

(***************************************************************************)
(* C21: when the native flow has returned a token, the request that        *)
(* decided the outcome carried the state drawn for this flow and a         *)
(* non-empty code, that code was posted to the token endpoint, and the     *)
(* token returned is the one the endpoint issued.                          *)
(***************************************************************************)
C21_NativeSuccessNeedsState ==
    (oa.flow = "native" /\ oa.pc = "done" /\ oa.ret.kind = "token") =>
        /\ oa.ret.from \in 1..Len(oa.cbs)
        /\ oa.cbs[oa.ret.from].q.state = oa.state
        /\ oa.cbs[oa.ret.from].q.code # ""
        /\ \E k \in 1..Len(oa.exchanges) :
              /\ oa.exchanges[k].from = oa.ret.from
              /\ oa.exchanges[k].code = oa.cbs[oa.ret.from].q.code
        /\ oa.ret.AccessToken = ExchangedToken

(***************************************************************************)
(* C22: in the broker flow no code is ever posted to the token endpoint,   *)
(* a request to /callback with a non-empty token (and no error parameter)  *)
(* is answered by a result, and when that request decides the outcome the  *)
(* flow returns exactly its token and user_id, with no error.              *)
(***************************************************************************)
IsBrokerCallback(q) == q.path = "/callback" /\ q.token # "" /\ q.error = ""

C22_BrokerTokenCompletes ==
    oa.flow = "broker" =>
        /\ oa.exchanges = <<>>
        /\ oa.pc # "exchange"
        /\ \A i \in 1..Len(oa.cbs) :
              IsBrokerCallback(oa.cbs[i].q) =>
                  /\ oa.cbs[i].ch = "resultCh"
                  /\ (oa.pc = "done" /\ oa.ret.from = i) =>
                        oa.ret = Token(oa.cbs[i].q.token,
                                       oa.cbs[i].q.user_id, i)

C22_Witness ==
    /\ oa.flow = "broker"
    /\ oa.pc = "done"
    /\ Len(oa.cbs) = 1
    /\ oa.cbs[1].q.token = "tok"
    /\ oa.ret = Token("tok", "42", 1)
    /\ oa.exchanges = <<>>
    /\ oa.ln = "closed"

(***************************************************************************)
(* C23: a flow whose server receives no request never returns a token;     *)
(* its timeout is the one given, or 2 minutes when none is given, and the  *)
(* deadline does not pass before it; unless the server itself failed, the  *)
(* flow returns the timeout error; and a flow that got as far as starting  *)
(* the server always returns.                                              *)
(***************************************************************************)
C23_NoCallbackEnds ==
    (oa.cbs = <<>>) =>
        /\ oa.ret.kind # "token"
        /\ oa.pc # "choosing" =>
              oa.timeout = IF oa.opts.Timeout <= 0 THEN 2 * Minute
                           ELSE oa.opts.Timeout
        /\ oa.ctx = "DeadlineExceeded" => oa.elapsed >= oa.timeout
        /\ (oa.pc = "done" /\ oa.ln # "none" /\ oa.errCh = <<>>
              /\ oa.ret.err # "serveErr") =>
              /\ oa.ret = Failed("authorization timed out", 0)
              /\ oa.ctx # "live"

C23_TimesOutWithoutCallback ==
    /\ []C23_NoCallbackEnds
    /\ (oa.pc \in Running) ~> (oa.pc = "done")

C23_Witness ==
    /\ oa.pc = "done"
    /\ oa.cbs = <<>>
    /\ oa.opts.Timeout = 0
    /\ oa.elapsed = 2 * Minute
    /\ oa.ctx = "DeadlineExceeded"
    /\ oa.ret = Failed("authorization timed out", 0)

(***************************************************************************)
(* C24: once the listener was bound, authorizeServer never returns with    *)
(* the listener or the server still open, whatever the exit path (token,   *)
(* provider error, state mismatch, missing code, failed exchange, failed   *)
(* server, timeout, cancellation): the port is free for the next attempt.  *)
(***************************************************************************)
C24_ListenerClosedOnReturn ==
    (oa.pc = "done" /\ oa.ln # "none") =>
        /\ oa.ln = "closed"
        /\ oa.srv = "closed"
        /\ ~oa.portBusy

C24_Witness ==
    /\ oa.pc = "done"
    /\ oa.ctx = "Canceled"
    /\ oa.ret = Failed("authorization timed out", 0)
    /\ oa.cbs # <<>>
    /\ oa.ln = "closed"

(***************************************************************************)
(* C25: the flow's outcome is the one of the first event: the first        *)
(* request whose message the handler sent, when it arrived before the      *)
(* context ended, and the timeout error otherwise.  (A failure of the      *)
(* server itself is left aside.)                                           *)
(***************************************************************************)
SentCallbacks == {i \in 1..Len(oa.cbs) : oa.cbs[i].sent}
FirstSent == CHOOSE i \in SentCallbacks : \A j \in SentCallbacks : i <= j

C25_FirstEventWins ==
    (oa.pc = "done" /\ oa.ln # "none" /\ oa.ret.err # "serveErr") =>
        IF SentCallbacks # {} /\ oa.cbs[FirstSent].ctx = "live"
          THEN oa.ret.from = FirstSent
          ELSE oa.ret = Failed("authorization timed out", 0)

(***************************************************************************)
(* C26: RecordFailure returns true exactly on the call that takes the      *)
(* breaker from closed to open, and false on every other call, also on a   *)
(* failure recorded while the breaker is already open.                     *)
(***************************************************************************)
C26_TrueOnlyWhenOpening ==
    last.op = "RecordFailure" =>
        (last.ret <=> (~last.pre.open /\ cb.open))

(***************************************************************************)
(* C27: a RecordFailure that comes right after IsOpen has reset an open    *)
(* breaker on cooldown expiry finds the counter at 0 and leaves the        *)
(* breaker closed with the counter at 1; the breaker is open only when at  *)
(* least 5 failures were recorded since the last reset, and the fifth of   *)
(* a fresh run opens it.                                                   *)
(***************************************************************************)
ResetByIsOpen == last.op = "IsOpen" /\ last.pre.open /\ ~last.ret

C27_FreshRunToReopen ==
    /\ [][(ResetByIsOpen /\ last'.op = "RecordFailure") =>
             /\ ~cb'.open
             /\ ~last'.ret
             /\ cb'.failures = 1
             /\ streak' = 1]_vars
    /\ [](ResetByIsOpen => cb.failures = 0 /\ ~cb.open /\ streak = 0)
    /\ [](cb.open => streak >= 5)
    /\ []((last.op = "RecordFailure" /\ streak = 5) => cb.open)

C27_Witness ==
    /\ last.op = "RecordFailure"
    /\ last.pre.failures = 0
    /\ last.pre.lastFailure >= StartTime
    /\ last.at - last.pre.lastFailure > CircuitBreakerResetTime
    /\ cb.failures = 1
    /\ ~cb.open
    /\ streak = 1

(***************************************************************************)
(* C28: of the 5xx responses of a send only the one that finds the retries *)
(* used up records a breaker failure, and it records exactly one; the      *)
(* failure that brings the counter to 5 opens the breaker; and a send      *)
(* begun on an open breaker within the cooldown is refused with            *)
(* CircuitBreakerError, without a network call and without touching the    *)
(* breaker.                                                                *)
(***************************************************************************)
ServerErrorArrives ==
    /\ rt.pc = "attempt"
    /\ rt'.pc \in {"wait", "done"}
    /\ rt'.resp.status >= 500

Exhausted5xx ==
    /\ rt.pc = "done"
    /\ rt.seen = {"5xx"}
    /\ rt.calls = cfg.MaxRetries5xx + 1

C29_FollowsNextURL ==
    [][(pg.pc = "get" /\ pg.requests # <<>> /\ pg'.pc # "get") =>
          pg'.requests[Len(pg'.requests)] =
              ParseLinkHeader(pg.resp.linkHeader).Next]_vars

(***************************************************************************)
(* C30: starting from no credential file, after any calls of SetStore,     *)
(* RemoveStore and SetDefault the default store is empty or one of the     *)
(* stores present; a SetStore that succeeded has stored the profile and    *)
(* made the store the default exactly when it is then the only store; a    *)
(* RemoveStore that succeeded has removed the store and, when it was the   *)
(* default, made the one store left the default, or cleared the default    *)
(* when none or several are left; and a call that failed, RemoveStore and  *)
(* SetDefault of a name not present among them, left the file as it was.   *)
(***************************************************************************)
Present(f) == DOMAIN f.Stores

C30_DefaultStoreValid ==
    LET f == cs.file
        p == cs.last.pre
        n == cs.last.name
        op == cs.last.op
        ok == cs.last.err = ""
    IN
    /\ f.DefaultStore = "" \/ f.DefaultStore \in Present(f)
    /\ (op = "SetStore" /\ ok) =>
          /\ f.Stores = Put(p.Stores, n, cs.last.profile)
          /\ f.DefaultStore = IF Present(f) = {n} THEN n ELSE p.DefaultStore
    /\ (op = "RemoveStore" /\ ok) =>
          /\ n \in Present(p)
          /\ Present(f) = Present(p) \ {n}
          /\ \A k \in Present(f) : f.Stores[k] = p.Stores[k]
          /\ p.DefaultStore # n => f.DefaultStore = p.DefaultStore
          /\ p.DefaultStore = n =>
                IF Cardinality(Present(f)) = 1
                  THEN Present(f) = {f.DefaultStore}
                  ELSE f.DefaultStore = ""
    /\ (op = "SetDefault" /\ ok) =>
          /\ n \in Present(p)
          /\ f = [p EXCEPT !.DefaultStore = n]
    /\ (op \in {"RemoveStore", "SetDefault"} /\ n \notin Present(p)) =>
          cs.last.err = "errStoreNotFound"
    /\ ~ok => f = p

C30_Witness ==
    /\ cs.last.op = "RemoveStore"
    /\ cs.last.err = ""
    /\ cs.last.name = "first"
    /\ cs.last.pre.DefaultStore = "first"
    /\ Present(cs.last.pre) = {"first", "second"}
    /\ cs.file.DefaultStore = "second"
    /\ Present(cs.file) = {"second"}

=============================================================================
